---- MODULE Spec2Model ----
(***************************************************************************)
(* Model of the schedule computation of tmgantt (src/src/tmgantt/main.py): *)
(* the working-day calendar (is_working_day, get_next_working_day), the    *)
(* checklist parser (parse_task_list) and the ASAP scheduling function     *)
(* prepare_gantt_data, run as a state machine: end-date seeding, then      *)
(* 2*n rounds over the sorted task ids, one task per step, then the final  *)
(* pass that emits the schedule.                                           *)
(*                                                                         *)
(* Dates are day numbers; day 0 is a Monday, so date.weekday() is d % 7.   *)
(* A task id "3.2" is the sequence <<3, 2>> of its dot-separated segments. *)
(* get_next_working_day is also called on its own (SpecCalendar).          *)
(* Several invocations of prepare_gantt_data, on snapshots with the same    *)
(* task ids, calendar and clock, run side by side: the values that differ  *)
(* between invocations (taskmaster_tasks, task_id_to_issue, task_dates,    *)
(* df_data) are sequences indexed by run.  Spec has one run.               *)
(***************************************************************************)
EXTENDS Integers, Sequences, FiniteSets, TLC

VARIABLES
    taskmaster_tasks,    \* per run: id -> [status, dependencies]
    task_id_to_issue,    \* per run: id -> issue (a function on the ids that have one)
    overall_start_date,  \* a day or None
    country_holidays,    \* set of days
    today,               \* datetime.now().date()
    task_dates,          \* per run: id -> [start, end]
    df_data,             \* per run: the rows appended so far
    pc,                  \* "seed", "loop", "final", "done"; "call", "return"
    rnd,                 \* rounds of the propagation loop completed
    idx,                 \* position in sorted_tm_ids within the current round
    call_d,              \* the argument d of a call of get_next_working_day on its own
    call_result          \* the date that call returned

vars == << taskmaster_tasks, task_id_to_issue, overall_start_date, country_holidays,
           today, task_dates, df_data, pc, rnd, idx, call_d, call_result >>

call == << call_d, call_result >>

inputs == << taskmaster_tasks, task_id_to_issue, overall_start_date, country_holidays, today >>

\* Python's None, for an optional date (every date of the model is >= 0).
None == -1

\* timedelta(days=7) of the fallback end date.
FallbackDays == 7

----------------------------------------------------------------------------
(* Bounds of the model *)

\* Dates of the facts range over the MaxOffset days that follow Today.
MaxOffset == 2

\* datetime.now().date() of a run: day 1 is a Tuesday.
Today == 1

\* get_next_working_day is called on its own for the days 0..MaxDay.
MaxDay == 13

----------------------------------------------------------------------------
(* Helpers *)

Max(a, b) == IF a >= b THEN a ELSE b

SetMax(S) == CHOOSE x \in S : \A y \in S : y <= x

Runs == DOMAIN task_dates

\* sorted()'s key: the list of the id's segments as integers; Python compares
\* lists lexicographically, a proper prefix first.
RECURSIVE KeyLess(_, _)
KeyLess(a, b) ==
    IF a = <<>> THEN b # <<>>
    ELSE IF b = <<>> THEN FALSE
    ELSE IF Head(a) # Head(b) THEN Head(a) < Head(b)
    ELSE KeyLess(Tail(a), Tail(b))

\* sorted(taskmaster_tasks.keys(), key=...)
RECURSIVE SortIds(_)
SortIds(S) ==
    IF S = {} THEN <<>>
    ELSE LET m == CHOOSE x \in S : \A y \in S \ {x} : KeyLess(x, y)
         IN  <<m>> \o SortIds(S \ {m})

sorted_tm_ids == SortIds(DOMAIN taskmaster_tasks[1])

\* date.weekday(): Monday is 0, Sunday is 6.
weekday(d) == d % 7

\* is_working_day without the holiday test
IsWeekday(d, holidays) == weekday(d) < 5

is_working_day(d, holidays) == weekday(d) < 5 /\ d \notin holidays

\* the while loop of get_next_working_day, from a candidate day on
RECURSIVE FirstWorkingFrom(_, _)
FirstWorkingFrom(next_day, holidays) ==
    IF is_working_day(next_day, holidays) THEN next_day
    ELSE FirstWorkingFrom(next_day + 1, holidays)

SameOrNextWorkingDay(d, holidays) == FirstWorkingFrom(d, holidays)

get_next_working_day(d, holidays) == FirstWorkingFrom(d + 1, holidays)

\* task_id_to_issue.get(tm_id): the issue, or NoIssue (Python None; every field
\* read through "issue and issue.f" is then falsy).
NoIssue == [created_at |-> None, due_date |-> None, closed_at |-> None, description |-> <<>>]

IssueOf(issues, id) == IF id \in DOMAIN issues THEN issues[id] ELSE NoIssue

\* the latest created_at instead of the earliest
LatestCreatedAt(issues, osd) ==
    LET C == { issues[i].created_at : i \in DOMAIN issues } \ {None}
    IN  IF osd # None \/ C = {} THEN None
        ELSE CHOOSE x \in C : \A y \in C : x >= y

\* earliest created_at among all issues, computed only without an override
EarliestCreatedAt(issues, osd) ==
    LET C == { issues[i].created_at : i \in DOMAIN issues } \ {None}
    IN  IF osd # None \/ C = {} THEN None
        ELSE CHOOSE x \in C : \A y \in C : x <= y

SeedEndNoClosed(task, issue, now) ==
    IF issue.due_date # None THEN issue.due_date ELSE now + FallbackDays

\* the end date a task is seeded with
SeedEnd(task, issue, now) ==
    IF task.status = "done" /\ issue.closed_at # None THEN issue.closed_at
    ELSE IF issue.due_date # None THEN issue.due_date
    ELSE now + FallbackDays

SeedDates(tasks, issues, now) ==
    [id \in DOMAIN tasks |->
        [start |-> None, end |-> SeedEnd(tasks[id], IssueOf(issues, id), now)]]

\* branch 1 of the loop body: a done task
DoneDates(info, issue) ==
    LET s0 == IF issue.created_at # None THEN issue.created_at ELSE info.end - 1
        s1 == IF s0 > info.end THEN info.end ELSE s0
        e1 == IF s1 = info.end THEN info.end + 1 ELSE info.end
    IN  [start |-> s1, end |-> e1]

OwnStartNoOverride(task, issue, osd) ==
    IF task.dependencies = {} /\ issue.created_at # None THEN issue.created_at ELSE None

\* the task's own created_at, used for an independent task only
OwnStart(task, issue, osd) ==
    IF task.dependencies = {} /\ issue.created_at # None
    THEN IF osd # None THEN Max(issue.created_at, osd) ELSE issue.created_at
    ELSE None

\* the latest end date among the dependencies that are in task_dates
MaxDepEndDate(task, td) ==
    LET E == { td[d].end : d \in task.dependencies \cap DOMAIN td }
    IN  IF E = {} THEN None ELSE SetMax(E)

\* DepStart taking the day after the latest dependency end, working day or not
DepStartDayAfter(task, td, own, holidays) ==
    LET max_dep_end_date == MaxDepEndDate(task, td)
    IN  IF task.dependencies # {} /\ max_dep_end_date # None
        THEN LET dep_based_start == max_dep_end_date + 1
             IN  IF own = None \/ dep_based_start > own THEN dep_based_start ELSE own
        ELSE own

DepStart(task, td, own, holidays) ==
    LET max_dep_end_date == MaxDepEndDate(task, td)
    IN  IF task.dependencies # {} /\ max_dep_end_date # None
        THEN LET dep_based_start == get_next_working_day(max_dep_end_date, holidays)
             IN  IF own = None \/ dep_based_start > own THEN dep_based_start ELSE own
        ELSE own

FallbackStartTomorrow(eps, osd, earliest_created_at, now) ==
    IF eps # None THEN eps
    ELSE IF osd # None THEN osd
    ELSE IF earliest_created_at # None THEN earliest_created_at
    ELSE get_next_working_day(now, {})

FallbackStart(eps, osd, earliest_created_at, now) ==
    IF eps # None THEN eps
    ELSE IF osd # None THEN osd
    ELSE IF earliest_created_at # None THEN earliest_created_at
    ELSE now

UpdateStartDayEarlier(start, earliest_possible_start) ==
    IF start = None THEN earliest_possible_start
    ELSE Max(start, earliest_possible_start) - 1

UpdateStart(start, earliest_possible_start) ==
    IF start = None \/ earliest_possible_start > start
    THEN earliest_possible_start ELSE start

FixEndNoPad(start, end) ==
    IF end < start THEN start + 1 ELSE end

FixEndFallback(start, end) ==
    IF end <= start THEN start + FallbackDays ELSE end

\* minimum one-day duration
FixEnd(start, end) ==
    IF end < start THEN start + 1
    ELSE IF end = start THEN start + 1
    ELSE end

\* branch 2 of the loop body: a task that is not done
AsapDates(task, issue, td, info, osd, holidays, earliest_created_at, now) ==
    LET own   == OwnStart(task, issue, osd)
        eps   == FallbackStart(DepStart(task, td, own, holidays), osd, earliest_created_at, now)
        start == UpdateStart(info.start, eps)
    IN  [start |-> start, end |-> FixEnd(start, info.end)]

\* one pass of the loop body for task id: the new task_dates
ProcessTask(tasks, issues, td, id, osd, holidays, now) ==
    LET task  == tasks[id]
        issue == IssueOf(issues, id)
    IN  [td EXCEPT ![id] =
            IF task.status = "done" THEN DoneDates(td[id], issue)
            ELSE AsapDates(task, issue, td, td[id], osd, holidays,
                           EarliestCreatedAt(issues, osd), now)]

\* parse_task_list keeping the ticked items only
ParseTickedOnly(description) ==
    LET ticked == SelectSeq(description, LAMBDA line : line.item /\ line.mark = "x")
    IN  [i \in 1..Len(ticked) |-> [completed |-> TRUE]]

\* parse_task_list: the completed flag of every line that is a checklist item.
\* A line is [item, mark]: whether it has the "- [?] title" shape, and its mark.
RECURSIVE parse_task_list(_)
parse_task_list(description) ==
    IF description = <<>> THEN <<>>
    ELSE LET line == Head(description)
             rest == parse_task_list(Tail(description))
         IN  IF line.item /\ line.mark \in {" ", "|", "x"}
             THEN <<[completed |-> (line.mark = "x")]>> \o rest
             ELSE rest

\* color_map.get(status, "#6c757d")
ColorOf(status) ==
    CASE status = "done"        -> "#28a745"
      [] status = "in-progress" -> "#fd7e14"
      [] status = "pending"     -> "#007bff"
      [] status = "blocked"     -> "#dc3545"
      [] OTHER                  -> "#6c757d"

\* the color of every checklist row
SubTaskColor == "#A0A0A0"

\* the rows of one task: its own entry, then one per checklist item
TaskRows(tasks, issues, td, id, now) ==
    LET start_date == IF td[id].start = None THEN now ELSE td[id].start
        end_date   == IF td[id].end = None THEN start_date + FallbackDays ELSE td[id].end
        subs       == parse_task_list(IssueOf(issues, id).description)
    IN  <<[TaskID |-> id, Start |-> start_date, Finish |-> end_date,
           Status |-> tasks[id].status, Color |-> ColorOf(tasks[id].status)]>>
        \o [i \in 1..Len(subs) |->
              [TaskID |-> Append(id, i), Start |-> start_date, Finish |-> end_date,
               Status |-> IF subs[i].completed THEN "done" ELSE "pending",
               Color |-> SubTaskColor]]

\* the orders taskmaster_tasks.items() may iterate in: the insertion order of the
\* dict, which only the final pass reads
ItemOrders(tasks) ==
    { order \in [1..Cardinality(DOMAIN tasks) -> DOMAIN tasks] :
        \A i, j \in DOMAIN order : i # j => order[i] # order[j] }

\* the final pass over taskmaster_tasks.items()
RECURSIVE BuildRows(_, _, _, _, _)
BuildRows(tasks, issues, td, order, now) ==
    IF order = <<>> THEN <<>>
    ELSE TaskRows(tasks, issues, td, Head(order), now)
         \o BuildRows(tasks, issues, td, Tail(order), now)

----------------------------------------------------------------------------
(* Input spaces *)

Days == (Today + 1)..(Today + MaxOffset)

OptDays == {None} \cup Days

Statuses == {"done", "pending"}

TaskIds == {<<1>>, <<2>>}

\* ids a dependency list may name: the tasks and one id that is no task
DepIds == TaskIds \cup {<<3>>}

TaskSet == [status : Statuses, dependencies : SUBSET DepIds]

\* the task graphs: one task, or two
TaskGraphs == [{<<1>>} -> TaskSet] \cup [TaskIds -> TaskSet]

Checklist == << [item |-> TRUE, mark |-> "x"], [item |-> FALSE, mark |-> " "],
                [item |-> TRUE, mark |-> " "] >>

\* the issues whose creation date is None or in createdDays
IssuesCreated(createdDays) ==
    [created_at : {None} \cup createdDays, due_date : OptDays, closed_at : OptDays,
     description : {Checklist}]

IssueSet == IssuesCreated(Days)

\* The issues a task of the given status is paired with.  closed_at is read for
\* a done task only (line 202) and due_date only when closed_at is not used
\* (line 209), so the fields that are never read are left None.
ReadFields(status, issue) ==
    IF status = "done" THEN issue.closed_at = None \/ issue.due_date = None
    ELSE issue.closed_at = None

IssueMapsOver(tasks, issueSet) ==
    UNION { { m \in [S -> issueSet] : \A id \in S : ReadFields(tasks[id].status, m[id]) }
            : S \in SUBSET DOMAIN tasks }

IssueMaps(tasks) == IssueMapsOver(tasks, IssueSet)

\* no task depends, directly or through other tasks, on itself
Acyclic(tasks) ==
    \E rank \in [DOMAIN tasks -> 1..Cardinality(DOMAIN tasks)] :
        \A id \in DOMAIN tasks :
            \A d \in tasks[id].dependencies \cap DOMAIN tasks : rank[d] < rank[id]

\* creation dates up to three days past the other facts
WideDays == (Today + 1)..(Today + MaxOffset + 3)

\* the ids of the three-task chain: "2", "2.1" and "10"
ChainIds == {<<2>>, <<2, 1>>, <<10>>}

\* chains a <- b <- c over ChainIds, of tasks that are not done
ChainGraphs ==
    { [id \in ChainIds |->
          [status |-> st[id],
           dependencies |-> IF id = ab[1] THEN {} ELSE IF id = ab[2] THEN {ab[1]} ELSE {ab[2]}]]
      : ab \in { p \in ChainIds \X ChainIds : p[1] # p[2] },
        st \in [ChainIds -> {"pending", "in-progress"}] }

\* the Mondays an override start date of the chain is drawn from
Mondays == {7, 14}

\* issues of the chain: no creation date, a due date at most MaxOffset days
\* before the override start date
ChainIssues(osd) ==
    [created_at : {None}, due_date : { osd - k : k \in 0..MaxOffset }, closed_at : {None},
     description : {<<>>}]

\* descriptions: none, and texts whose lines are ticked, unticked, marked "|" or
\* "X", or no list line at all
Descriptions ==
    { << >>,
      Checklist,
      << [item |-> TRUE, mark |-> "|"], [item |-> TRUE, mark |-> "X"],
         [item |-> TRUE, mark |-> "x"] >>,
      << [item |-> TRUE, mark |-> " "] >> }

\* the key sets flatten builds from task 1, its sub-task 1.1 and task 2
HierDomains == { {<<1>>}, {<<1>>, <<1, 1>>}, {<<1>>, <<2>>} }

\* task graphs over a hierarchy, every dependency list empty or naming task 1
HierGraphs ==
    UNION { [D -> [status : Statuses, dependencies : {{}, {<<1>>}}]] : D \in HierDomains }

\* issues with a description, created the day after Today or without a date
DescribedIssues ==
    [created_at : {None, Today + 1}, due_date : {None}, closed_at : {None},
     description : Descriptions]

\* task graphs of one or two tasks whose dependencies name tasks 1 and 2: with
\* self-references, cycles and, for a single task, an id that is no task
LoopGraphs ==
    LET T == [status : Statuses, dependencies : SUBSET TaskIds]
    IN  [{<<1>>} -> T] \cup [TaskIds -> T]

\* issues due the day after Today
PlainIssues ==
    [created_at : {None}, due_date : {Today + 1}, closed_at : {None},
     description : {<< >>}]

\* holiday calendars: none, a Thursday, also the Friday, also the Monday after
HolidaySets == { {}, {3}, {3, 4}, {3, 4, 7} }

\* task graphs of one or two tasks whose dependency lists are empty or name
\* task 1 or the id that is no task
SparseGraphs ==
    LET T == [status : Statuses, dependencies : { {}, {<<1>>}, {<<3>>} }]
    IN  [{<<1>>} -> T] \cup [TaskIds -> T]

\* issues with at most a creation date
CreatedIssues ==
    [created_at : OptDays, due_date : {None}, closed_at : {None}, description : {<< >>}]

\* holiday calendars of the calls of get_next_working_day on its own: the subsets
\* of a Thursday, the Friday after it and the Monday and Tuesday after that
CalendarHolidays == SUBSET {3, 4, 7, 8}

\* override start dates: none, or one of the two days after Today
OptOverride == {None, Today + 1, Today + 2}

\* the holiday calendar: the Friday after Today
Holidays == {4}

----------------------------------------------------------------------------
(* The state machine *)

Start ==
    /\ today = Today
    /\ task_dates = [r \in DOMAIN taskmaster_tasks |-> << >>]
    /\ df_data = [r \in DOMAIN taskmaster_tasks |-> << >>]
    /\ pc = "seed"
    /\ rnd = 0
    /\ idx = 1
    /\ call_d = None
    /\ call_result = None

Init ==
    /\ \E g \in TaskGraphs : taskmaster_tasks = <<g>>
    /\ \E m \in IssueMaps(taskmaster_tasks[1]) : task_id_to_issue = <<m>>
    /\ overall_start_date \in OptOverride
    /\ country_holidays = Holidays
    /\ Start

\* lines 195-224: seed every task's end date
Seed ==
    /\ pc = "seed"
    /\ task_dates' = [r \in Runs |->
            SeedDates(taskmaster_tasks[r], task_id_to_issue[r], today)]
    /\ pc' = IF Len(sorted_tm_ids) = 0 THEN "final" ELSE "loop"
    /\ UNCHANGED << inputs, df_data, rnd, idx, call >>

\* the loop body leaving the loop after one round per task
StepSingleRound ==
    /\ pc = "loop"
    /\ task_dates' = [r \in Runs |->
            ProcessTask(taskmaster_tasks[r], task_id_to_issue[r], task_dates[r],
                        sorted_tm_ids[idx], overall_start_date, country_holidays, today)]
    /\ IF idx < Len(sorted_tm_ids)
       THEN /\ idx' = idx + 1
            /\ UNCHANGED << rnd, pc >>
       ELSE /\ idx' = 1
            /\ rnd' = rnd + 1
            /\ pc' = IF rnd + 1 = Len(sorted_tm_ids) THEN "final" ELSE "loop"
    /\ UNCHANGED << inputs, df_data, call >>

\* lines 239-346: the loop body for the task at idx of the current round
Step ==
    /\ pc = "loop"
    /\ task_dates' = [r \in Runs |->
            ProcessTask(taskmaster_tasks[r], task_id_to_issue[r], task_dates[r],
                        sorted_tm_ids[idx], overall_start_date, country_holidays, today)]
    /\ IF idx < Len(sorted_tm_ids)
       THEN /\ idx' = idx + 1
            /\ UNCHANGED << rnd, pc >>
       ELSE /\ idx' = 1
            /\ rnd' = rnd + 1
            /\ pc' = IF rnd + 1 = 2 * Len(sorted_tm_ids) THEN "final" ELSE "loop"
    /\ UNCHANGED << inputs, df_data, call >>

\* lines 348-428: the final pass
Materialize ==
    /\ pc = "final"
    /\ \E order \in ItemOrders(taskmaster_tasks[1]) :
          df_data' = [r \in Runs |->
            BuildRows(taskmaster_tasks[r], task_id_to_issue[r], task_dates[r],
                      order, today)]
    /\ pc' = "done"
    /\ UNCHANGED << inputs, task_dates, rnd, idx, call >>

Next == Seed \/ Step \/ Materialize

Spec == Init /\ [][Next]_vars

\* One run over an acyclic task graph, with creation dates from WideDays.
InitAcyclic ==
    /\ \E g \in TaskGraphs : Acyclic(g) /\ taskmaster_tasks = <<g>>
    /\ \E m \in IssueMapsOver(taskmaster_tasks[1], IssuesCreated(WideDays)) :
            task_id_to_issue = <<m>>
    /\ overall_start_date \in OptOverride
    /\ country_holidays = Holidays
    /\ Start

SpecAcyclic == InitAcyclic /\ [][Next]_vars

\* Two runs: in the first a task that is not done names only ids that are no
\* task; the second is the same snapshot with that task's dependency list empty.
InitDangling ==
    /\ \E g \in TaskGraphs : \E t \in DOMAIN g :
            /\ g[t].status # "done"
            /\ g[t].dependencies # {}
            /\ g[t].dependencies \cap DOMAIN g = {}
            /\ taskmaster_tasks = <<g, [g EXCEPT ![t].dependencies = {}]>>
    /\ \E m \in IssueMaps(taskmaster_tasks[1]) : task_id_to_issue = <<m, m>>
    /\ overall_start_date \in OptOverride
    /\ country_holidays = Holidays
    /\ Start

SpecDangling == InitDangling /\ [][Next]_vars

\* the end-date fact of an issue for a task of the given status, as SeedEnd reads it
EndFact(status, issue) ==
    IF status = "done" /\ issue.closed_at # None THEN "closed_at"
    ELSE IF issue.due_date # None THEN "due_date"
    ELSE "none"

\* the issue with its end-date fact set to day v
WithEndFact(status, issue, v) ==
    IF EndFact(status, issue) = "closed_at" THEN [issue EXCEPT !.closed_at = v]
    ELSE [issue EXCEPT !.due_date = v]

\* Two runs on snapshots that are identical except that the end-date fact of one
\* task, on which some task depends, is later in the second.  Every dependency
\* names a task.
InitLater ==
    /\ \E g \in [TaskIds -> [status : Statuses, dependencies : SUBSET TaskIds]] :
            taskmaster_tasks = <<g, g>>
    /\ \E m \in IssueMaps(taskmaster_tasks[1]) : \E d \in DOMAIN m : \E v \in Days :
            LET st == taskmaster_tasks[1][d].status
            IN  /\ \E id \in TaskIds : d \in taskmaster_tasks[1][id].dependencies
                /\ EndFact(st, m[d]) # "none"
                /\ v > SeedEnd(taskmaster_tasks[1][d], m[d], Today)
                /\ task_id_to_issue = <<m, [m EXCEPT ![d] = WithEndFact(st, m[d], v)]>>
    /\ overall_start_date \in OptOverride
    /\ country_holidays = Holidays
    /\ Start

SpecLater == InitLater /\ [][Next]_vars

\* One run over a chain of three tasks that are not done, without holidays and
\* creation dates, with a Monday as override start date and every seeded end date
\* not later than it.
InitChain ==
    /\ \E g \in ChainGraphs : taskmaster_tasks = <<g>>
    /\ overall_start_date \in Mondays
    /\ \E m \in UNION { [S -> ChainIssues(overall_start_date)] : S \in SUBSET ChainIds } :
            /\ \A id \in ChainIds :
                    SeedEnd(taskmaster_tasks[1][id], IssueOf(m, id), Today) <= overall_start_date
            /\ task_id_to_issue = <<m>>
    /\ country_holidays = {}
    /\ Start

SpecChain == InitChain /\ [][Next]_vars

\* One run over a hierarchy of tasks whose issues carry descriptions.
InitItems ==
    /\ \E g \in HierGraphs : taskmaster_tasks = <<g>>
    /\ \E m \in UNION { [S -> DescribedIssues] : S \in SUBSET DOMAIN taskmaster_tasks[1] } :
            task_id_to_issue = <<m>>
    /\ overall_start_date = None
    /\ country_holidays = Holidays
    /\ Start

SpecItems == InitItems /\ [][Next]_vars

\* One run over any graph of one or two tasks, cyclic ones included, under any
\* of the holiday calendars.  The run is a sequential computation: a step that
\* can be taken is taken.
InitLoops ==
    /\ \E g \in LoopGraphs : taskmaster_tasks = <<g>>
    /\ \E m \in [{<<1>>} -> PlainIssues] \cup {<< >>} : task_id_to_issue = <<m>>
    /\ overall_start_date \in OptOverride
    /\ country_holidays \in HolidaySets
    /\ Start

SpecLoops == InitLoops /\ [][Next]_vars /\ WF_vars(Next)

\* One run in which issues may also be mapped to ids that are no task.
InitFallback ==
    /\ \E g \in SparseGraphs : taskmaster_tasks = <<g>>
    /\ \E m \in UNION { [S -> CreatedIssues] : S \in SUBSET DepIds } : task_id_to_issue = <<m>>
    /\ overall_start_date \in OptOverride
    /\ country_holidays = Holidays
    /\ Start

SpecFallback == InitFallback /\ [][Next]_vars

\* get_next_working_day called on its own, for every day up to MaxDay and every
\* holiday calendar.
InitCalendar ==
    /\ call_d \in 0..MaxDay
    /\ call_result = None
    /\ country_holidays \in CalendarHolidays
    /\ pc = "call"
    /\ taskmaster_tasks = << >>
    /\ task_id_to_issue = << >>
    /\ overall_start_date = None
    /\ today = Today
    /\ task_dates = << >>
    /\ df_data = << >>
    /\ rnd = 0
    /\ idx = 1

\* lines 144-149: the call and its return value
CallGetNextWorkingDay ==
    /\ pc = "call"
    /\ call_result' = get_next_working_day(call_d, country_holidays)
    /\ pc' = "return"
    /\ UNCHANGED << inputs, task_dates, df_data, rnd, idx, call_d >>

SpecCalendar == InitCalendar /\ [][CallGetNextWorkingDay]_vars

----------------------------------------------------------------------------
(* Properties of the returned schedule *)

Returned == pc = "done"

tasks1 == taskmaster_tasks[1]

issues1 == task_id_to_issue[1]

Rows(r) == { df_data[r][i] : i \in DOMAIN df_data[r] }

\* the row of task id in the schedule of run r
RowOf(r, id) == CHOOSE row \in Rows(r) : row.TaskID = id /\ row.Color # SubTaskColor

NotDone(t) == t.status # "done"

InGraphDeps(tasks, id) == tasks[id].dependencies \cap DOMAIN tasks

\* C1: in the returned schedule every entry, of a task or of a checklist item,
\* finishes strictly after it starts.
C1_FinishAfterStart ==
    Returned => \A r \in Runs : \A row \in Rows(r) : row.Finish > row.Start

\* C1 witness: a returned schedule with a checklist row, a done task whose
\* creation date is its closed date and a task that is not done whose due date
\* is not later than its start.
C1_Witness ==
    /\ Returned
    /\ \E row \in Rows(1) : row.Color = SubTaskColor
    /\ \E id \in DOMAIN tasks1 :
          /\ tasks1[id].status = "done"
          /\ IssueOf(issues1, id).created_at # None
          /\ IssueOf(issues1, id).created_at = IssueOf(issues1, id).closed_at
    /\ \E id \in DOMAIN tasks1 :
          /\ NotDone(tasks1[id])
          /\ IssueOf(issues1, id).due_date # None
          /\ IssueOf(issues1, id).due_date <= RowOf(1, id).Start

\* C3 (as claimed): a done task created after it was closed ends with its start
\* on the closed date.
C3_ClampedToClosed ==
    Returned =>
        \A id \in DOMAIN tasks1 :
            LET issue == IssueOf(issues1, id)
            IN  (/\ tasks1[id].status = "done"
                 /\ issue.created_at # None
                 /\ issue.closed_at # None
                 /\ issue.created_at > issue.closed_at)
                => RowOf(1, id).Start = issue.closed_at

\* C4 (as claimed): every task that is not done and has a creation date, with
\* or without dependencies, starts no earlier than its creation date, and no
\* earlier than the later of creation date and override start date.
C4_StartAfterCreation ==
    Returned =>
        \A id \in DOMAIN tasks1 :
            LET issue == IssueOf(issues1, id)
            IN  (NotDone(tasks1[id]) /\ issue.created_at # None)
                => /\ RowOf(1, id).Start >= issue.created_at
                   /\ overall_start_date # None =>
                        RowOf(1, id).Start >= Max(issue.created_at, overall_start_date)

\* C4 (amended): every task that is not done, has an empty dependency list and
\* has a creation date starts no earlier than its creation date, and no earlier
\* than the later of creation date and override start date.
C4_IndependentStartAfterCreation ==
    Returned =>
        \A id \in DOMAIN tasks1 :
            LET issue == IssueOf(issues1, id)
            IN  (/\ NotDone(tasks1[id])
                 /\ tasks1[id].dependencies = {}
                 /\ issue.created_at # None)
                => /\ RowOf(1, id).Start >= issue.created_at
                   /\ overall_start_date # None =>
                        RowOf(1, id).Start >= Max(issue.created_at, overall_start_date)

\* C4 witness: an independent task that is not done, created before the
\* override start date, in a returned schedule.
C4_Witness ==
    /\ Returned
    /\ \E id \in DOMAIN tasks1 :
          /\ NotDone(tasks1[id])
          /\ tasks1[id].dependencies = {}
          /\ IssueOf(issues1, id).created_at # None
          /\ overall_start_date # None
          /\ IssueOf(issues1, id).created_at < overall_start_date
          /\ RowOf(1, id).Start = overall_start_date

\* C8: a done task created strictly before it was closed is returned with
\* start = created_at and finish = closed_at.
C8_DoneTaskKeepsFacts ==
    Returned =>
        \A id \in DOMAIN tasks1 :
            LET issue == IssueOf(issues1, id)
            IN  (/\ tasks1[id].status = "done"
                 /\ issue.created_at # None
                 /\ issue.closed_at # None
                 /\ issue.created_at < issue.closed_at)
                => /\ RowOf(1, id).Start = issue.created_at
                   /\ RowOf(1, id).Finish = issue.closed_at

\* C8 witness: such a done task that depends on a task scheduled later than its
\* closed date, under an override start date later than its creation date.
C8_Witness ==
    /\ Returned
    /\ \E id \in DOMAIN tasks1 :
          LET issue == IssueOf(issues1, id)
          IN  /\ tasks1[id].status = "done"
              /\ issue.created_at # None
              /\ issue.closed_at # None
              /\ issue.created_at < issue.closed_at
              /\ overall_start_date # None
              /\ overall_start_date > issue.created_at
              /\ \E d \in InGraphDeps(tasks1, id) :
                    d # id /\ RowOf(1, d).Finish > issue.closed_at

NoFacts(issues) ==
    \A i \in DOMAIN issues :
        /\ issues[i].created_at = None
        /\ issues[i].due_date = None
        /\ issues[i].closed_at = None

\* C9: without any fact and without an override start date, a task that is
\* not done and has no dependencies starts today and finishes today + 7 days.
C9_NoFactsDefault ==
    Returned =>
        \A id \in DOMAIN tasks1 :
            (/\ NotDone(tasks1[id])
             /\ tasks1[id].dependencies = {}
             /\ NoFacts(issues1)
             /\ overall_start_date = None)
            => /\ RowOf(1, id).Start = today
               /\ RowOf(1, id).Finish = today + 7

\* C9 witness: such a task in a returned schedule of two tasks.
C9_Witness ==
    /\ Returned
    /\ NoFacts(issues1)
    /\ overall_start_date = None
    /\ Cardinality(DOMAIN tasks1) = 2
    /\ \E id \in DOMAIN tasks1 : NotDone(tasks1[id]) /\ tasks1[id].dependencies = {}

\* the latest finish among the in-graph dependencies of task id in run r
LatestDepFinish(r, id) ==
    SetMax({ RowOf(r, d).Finish : d \in InGraphDeps(taskmaster_tasks[r], id) })

\* C2 (as claimed): every task that is not done and has a dependency in the
\* task graph starts no earlier than the next working day after the latest
\* final finish among its in-graph dependencies.
C2_StartAfterDependencies ==
    Returned =>
        \A id \in DOMAIN tasks1 :
            (NotDone(tasks1[id]) /\ InGraphDeps(tasks1, id) # {})
            => RowOf(1, id).Start >=
                  get_next_working_day(LatestDepFinish(1, id), country_holidays)

\* one more round of the loop body over all tasks
RECURSIVE RunRound(_, _, _, _, _, _, _)
RunRound(tasks, issues, td, order, osd, holidays, now) ==
    IF order = <<>> THEN td
    ELSE RunRound(tasks, issues,
                  ProcessTask(tasks, issues, td, Head(order), osd, holidays, now),
                  Tail(order), osd, holidays, now)

\* C6 (as claimed): for an acyclic graph the table reached after the 2*n rounds
\* is a fixpoint of the round.
C6_FixpointAfterRounds ==
    (pc \in {"final", "done"} /\ Acyclic(tasks1))
    => RunRound(tasks1, issues1, task_dates[1], sorted_tm_ids,
                overall_start_date, country_holidays, today) = task_dates[1]

\* the tasks whose dependency list differs between the two runs
Relisted == { id \in DOMAIN tasks1 :
                taskmaster_tasks[1][id].dependencies # taskmaster_tasks[2][id].dependencies }

\* C7 (as claimed): a task that is not done and names only ids that are no task
\* is scheduled as the same task with an empty dependency list.
C7_DanglingAsIndependent ==
    Returned =>
        \A id \in Relisted :
            /\ RowOf(1, id).Start = RowOf(2, id).Start
            /\ RowOf(1, id).Finish = RowOf(2, id).Finish

\* the tasks whose issue differs between the two runs
Refacted == { id \in DOMAIN tasks1 :
                IssueOf(task_id_to_issue[1], id) # IssueOf(task_id_to_issue[2], id) }

\* C5: when the end-date fact of a dependency is later in the second run and
\* nothing else differs, no task depending on it starts earlier in the second
\* run than in the first.
C5_Monotone ==
    Returned =>
        \A d \in Refacted : \A id \in DOMAIN tasks1 :
            d \in tasks1[id].dependencies => RowOf(2, id).Start >= RowOf(1, id).Start

\* C5 witness: a dependent that is not done starts strictly later in the
\* second run.
C5_Witness ==
    /\ Returned
    /\ \E d \in Refacted : \E id \in DOMAIN tasks1 \ {d} :
          /\ d \in tasks1[id].dependencies
          /\ NotDone(tasks1[id])
          /\ RowOf(2, id).Start > RowOf(1, id).Start

\* the task of the chain without dependencies, its dependent, and the last one
ChainA == CHOOSE id \in DOMAIN tasks1 : tasks1[id].dependencies = {}

ChainB == CHOOSE id \in DOMAIN tasks1 : tasks1[id].dependencies = {ChainA}

ChainC == CHOOSE id \in DOMAIN tasks1 : tasks1[id].dependencies = {ChainB}

\* C10: in a chain A <- B <- C of tasks that are not done, without holidays and
\* creation dates, with a Monday override start date and seeded end dates not
\* later than it: A runs Monday to Tuesday, B Wednesday to Thursday and C starts
\* on Friday.
C10_Chain ==
    Returned =>
        /\ weekday(overall_start_date) = 0
        /\ RowOf(1, ChainA).Start = overall_start_date
        /\ RowOf(1, ChainA).Finish = overall_start_date + 1
        /\ RowOf(1, ChainB).Start = overall_start_date + 2
        /\ RowOf(1, ChainB).Finish = overall_start_date + 3
        /\ RowOf(1, ChainC).Start = overall_start_date + 4

\* C10 witness: a returned chain whose last task sorts first and whose first
\* task sorts last.
C10_Witness ==
    /\ Returned
    /\ sorted_tm_ids[1] = ChainC
    /\ sorted_tm_ids[3] = ChainA
    /\ RowOf(1, ChainC).Start = overall_start_date + 4

\* the lines of a description that are checklist items
ChecklistItems(description) ==
    SelectSeq(description, LAMBDA line : line.item /\ line.mark \in {" ", "|", "x"})

\* the position of the task's own row in the schedule of run r
OwnIndex(r, id) ==
    CHOOSE p \in DOMAIN df_data[r] :
        df_data[r][p].TaskID = id /\ df_data[r][p].Color # SubTaskColor

\* C11: for every task whose issue holds k checklist items the schedule has,
\* directly after the task's own entry and in checklist order, exactly k
\* synthetic entries, each with the start and finish of the task's entry and
\* with status done if the item is ticked and pending otherwise.
C11_ChecklistEntries ==
    Returned =>
        LET rows == df_data[1]
        IN  /\ rows[1].Color # SubTaskColor
            /\ Cardinality({ p \in DOMAIN rows : rows[p].Color # SubTaskColor })
                    = Cardinality(DOMAIN tasks1)
            /\ \A id \in DOMAIN tasks1 :
                  LET items == ChecklistItems(IssueOf(issues1, id).description)
                      k     == Len(items)
                      p     == OwnIndex(1, id)
                  IN  /\ \E q \in DOMAIN rows :
                            rows[q].TaskID = id /\ rows[q].Color # SubTaskColor
                      /\ p + k <= Len(rows)
                      /\ \A i \in 1..k :
                            /\ rows[p + i].Color = SubTaskColor
                            /\ rows[p + i].TaskID = Append(id, i)
                            /\ rows[p + i].Start = rows[p].Start
                            /\ rows[p + i].Finish = rows[p].Finish
                            /\ rows[p + i].Status =
                                    IF items[i].mark = "x" THEN "done" ELSE "pending"
                      /\ p + k < Len(rows) => rows[p + k + 1].Color # SubTaskColor

\* C11 witness: a returned schedule whose first task has an item marked "|"
\* and a ticked item, in this order, and whose second task has a single item.
C11_Witness ==
    /\ Returned
    /\ Len(df_data[1]) = 5
    /\ df_data[1][2].Status = "pending"
    /\ df_data[1][3].Status = "done"
    /\ df_data[1][3].Color = SubTaskColor
    /\ df_data[1][4].Color # SubTaskColor
    /\ df_data[1][5].Color = SubTaskColor
    /\ \E id \in DOMAIN tasks1 :
          ChecklistItems(IssueOf(issues1, id).description)
              = << [item |-> TRUE, mark |-> "|"], [item |-> TRUE, mark |-> "x"] >>

\* C12: whatever the task graph, cyclic or self-referencing ones included, and
\* whatever the holiday set, the run ends: the loop is left after exactly 2*n
\* rounds, and the returned schedule has an entry for every task.
C12_EndsAfterTwoRoundsPerTask ==
    /\ [](pc = "loop" => rnd < 2 * Cardinality(DOMAIN tasks1))
    /\ [](pc \in {"final", "done"} => rnd = 2 * Cardinality(DOMAIN tasks1))
    /\ [](Returned => \A id \in DOMAIN tasks1 :
                \E p \in DOMAIN df_data[1] :
                    df_data[1][p].TaskID = id /\ df_data[1][p].Color # SubTaskColor)
    /\ <>Returned

\* C12 witness: a returned schedule of two tasks that depend on each other, one
\* of them also on itself, after four rounds, with a start past three holidays.
C12_Witness ==
    /\ Returned
    /\ rnd = 4
    /\ DOMAIN tasks1 = TaskIds
    /\ tasks1[<<1>>].dependencies = TaskIds
    /\ tasks1[<<2>>].dependencies = {<<1>>}
    /\ NotDone(tasks1[<<1>>]) /\ NotDone(tasks1[<<2>>])
    /\ country_holidays = {3, 4, 7}
    /\ \E id \in TaskIds : RowOf(1, id).Start > 7

\* C13: in every step of the run, the start of a task that is not done, once
\* set, does not move to an earlier date.
C13_StartNeverEarlier ==
    [][\A r \in Runs : \A id \in DOMAIN task_dates[r] :
            (NotDone(taskmaster_tasks[r][id]) /\ task_dates[r][id].start # None)
            => task_dates'[r][id].start >= task_dates[r][id].start]_vars

\* C13 witness: after the first round, the task about to be processed is not
\* done, has its start set, and this processing moves its start later.
C13_Witness ==
    /\ pc = "loop"
    /\ rnd >= 1
    /\ LET id == sorted_tm_ids[idx]
       IN  /\ NotDone(tasks1[id])
           /\ task_dates[1][id].start # None
           /\ ProcessTask(tasks1, issues1, task_dates[1], id, overall_start_date,
                          country_holidays, today)[id].start > task_dates[1][id].start

\* the creation dates of all issues of run 1
CreatedDates == { issues1[i].created_at : i \in DOMAIN issues1 } \ {None}

\* C14: a task that is not done, has no creation date of its own and no
\* dependency in the task graph starts on the override start date if one is
\* given, otherwise on the earliest creation date among all issues of the run
\* if there is one, otherwise today.
C14_FallbackStart ==
    Returned =>
        \A id \in DOMAIN tasks1 :
            (/\ NotDone(tasks1[id])
             /\ IssueOf(issues1, id).created_at = None
             /\ InGraphDeps(tasks1, id) = {})
            => RowOf(1, id).Start =
                  IF overall_start_date # None THEN overall_start_date
                  ELSE IF CreatedDates # {}
                       THEN CHOOSE x \in CreatedDates : \A y \in CreatedDates : x <= y
                       ELSE today

\* C14 witness: without an override, such a task starts on the creation date of
\* an issue mapped to an id that is no task, earlier than the creation date of
\* the other task's issue.
C14_Witness ==
    /\ Returned
    /\ overall_start_date = None
    /\ DOMAIN tasks1 = TaskIds
    /\ <<3>> \in DOMAIN issues1
    /\ \E id \in TaskIds : \E other \in TaskIds \ {id} :
          /\ NotDone(tasks1[id])
          /\ IssueOf(issues1, id).created_at = None
          /\ InGraphDeps(tasks1, id) = {}
          /\ tasks1[id].dependencies # {}
          /\ IssueOf(issues1, other).created_at > issues1[<<3>>].created_at
          /\ issues1[<<3>>].created_at # None
          /\ RowOf(1, id).Start = issues1[<<3>>].created_at

\* Saturday or Sunday
Weekend(day) == day % 7 \in {5, 6}

\* C15: get_next_working_day(d) returns the smallest date strictly later than d
\* that is neither a Saturday or Sunday nor a holiday; with an empty holiday
\* set every date it passes over is a Saturday or a Sunday.
C15_NextWorkingDay ==
    pc = "return" =>
        /\ call_result > call_d
        /\ ~Weekend(call_result)
        /\ call_result \notin country_holidays
        /\ \A day \in (call_d + 1)..(call_result - 1) :
                Weekend(day) \/ day \in country_holidays
        /\ country_holidays = {} =>
                \A day \in (call_d + 1)..(call_result - 1) : Weekend(day)

\* C15 witness: the call for a Thursday when the Friday and the Monday and
\* Tuesday after it are holidays returns the Wednesday.
C15_Witness ==
    /\ pc = "return"
    /\ call_d = 3
    /\ country_holidays = {4, 7, 8}
    /\ call_result = 9

\* C16: in the returned schedule every task that is not done and has a
\* dependency in the task graph starts on a working day: no Saturday, no Sunday
\* and no holiday, whatever the override start date and its creation date.
C16_DependentStartsOnWorkingDay ==
    Returned =>
        \A id \in DOMAIN tasks1 :
            (NotDone(tasks1[id]) /\ InGraphDeps(tasks1, id) # {})
            => /\ ~Weekend(RowOf(1, id).Start)
               /\ RowOf(1, id).Start \notin country_holidays

\* C16 witness: such a task was created on a Saturday, depends on a task that
\* ends the day before the holiday, and starts on the Monday, under an override
\* start date.
C16_Witness ==
    /\ Returned
    /\ overall_start_date # None
    /\ \E id \in DOMAIN tasks1 :
          /\ NotDone(tasks1[id])
          /\ InGraphDeps(tasks1, id) # {}
          /\ IssueOf(issues1, id).created_at # None
          /\ Weekend(IssueOf(issues1, id).created_at)
          /\ LatestDepFinish(1, id) + 1 \in country_holidays
          /\ RowOf(1, id).Start = LatestDepFinish(1, id) + 4

\* C17 (as claimed): the TaskIDs of the entries of the returned schedule are
\* pairwise distinct, also when a task with a sub-task has checklist items.
C17_DistinctTaskIds ==
    Returned =>
        \A p, q \in DOMAIN df_data[1] :
            p # q => df_data[1][p].TaskID # df_data[1][q].TaskID

====
